---------------------------- MODULE Spec2Model ----------------------------
(***************************************************************************)
(* The call / animation orchestration of the payphone front-end            *)
(* (src/src/App.tsx, component App): dial, ringback, greeting fetch,       *)
(* chat, TTS playback, the two sprite animations and hang-up.              *)
(*                                                                         *)
(* One action per event handler, timer callback or promise continuation.   *)
(* React state is updated by the handler and the effects of the render     *)
(* that follows it run in the same action (operator Commit).               *)
(*                                                                         *)
(* Strings are sequences of one-character strings; null and '' are both    *)
(* the empty sequence where the code tests them with `!x`.                 *)
(***************************************************************************)
EXTENDS Integers, Sequences, FiniteSets, TLC

(***************************************************************************)
(* Program constants.                                                      *)
(***************************************************************************)
\* const DIAL_ANIM_LAST_FRAME = 120
DIAL_ANIM_LAST_FRAME == 120
\* const AB_ANIM_LAST_FRAME = 192
AB_ANIM_LAST_FRAME == 192
\* .slice(-60) of every setHistory append
HISTORY_CAP == 60
\* .slice(0, 11) of every write of the dial buffer
MAX_DIGITS == 11

\* the placeholder bubble text
Placeholder == <<"...">>

(***************************************************************************)
(* Bounds of the model.                                                    *)
(***************************************************************************)
\* frames of the dial-pad animation in the call specifications
DialFrames == 2
\* frames of the address-book animation in the call specifications
AbFrames == 2
\* digits that may be keyed into the dial buffer in the call specifications
MaxDial == 1
\* async flows (generateGreeting and sendText calls) per run
MaxFlows == 2
\* sendText flows per run of the transcript specification
MaxAppendSends == 34
\* rounds of the transcript specification whose outcome is left open
OpenRounds == 2

\* async flows per run of the specification of overlapping sends
MaxOverlap == 3
\* Keys of the dial pad used in the runs; "3" is no configured number.
Digits == {"1", "2", "3"}
\* The configured routes (GET /api/routes), by number.
ConfiguredRoutes == {<<"1">>, <<"2">>}
\* What the user can type into the chat input.
RawTexts == {<<" ", "a">>}
\* Inputs that hold nothing but white space.
BlankTexts == {<<>>, <<" ">>}
\* The digit key pressed in the runs that fill the dial buffer.
DialKeys == {"1"}
\* What the mobile keyboard can leave in the dial input: nothing, a route, a
\* text with a non-digit, and twelve digits.
MobileTexts ==
    {<<>>, <<"1">>, <<"3", "-", "1">>,
     <<"3", "3", "3", "3", "3", "3", "3", "3", "3", "3", "3", "1">>}
\* Response bodies of /api/chat for the greeting (data.text), before trim.
GreetBodies == {<<>>, <<" ">>, <<"g", " ">>}
\* Response bodies of /api/chat for a message (data.text).
ChatBodies == {<<>>, <<"r">>}

VARIABLES
    appLoading,         \* useState(true): the loading overlay
    routes,             \* useState([]): numbers of the configured routes
    isMobile,           \* useState(getIsMobile())
    frameCount,         \* [dial, ab]: the two LAST_FRAME constants the run uses
    dialed,             \* the dial buffer
    connectedNumber,    \* <<>> is null
    input,              \* the chat input
    history,            \* the transcript
    speaking,
    ttsPlaying,
    chatStatus,
    dialModalOpen,
    dialAnimFrame,
    dialAnimPlaying,
    dialAnimTimerRef,   \* {} is null, else {the interval it names}
    dialTimers,         \* the live intervals of playDialAnimOnce
    addressBookOpen,
    abFrame,
    abPlaying,
    abPhase,
    abTimerRef,         \* {} is null, else {the interval it names}
    abTimers,           \* the live intervals of playAbAnim
    abCancelled,        \* observation: the running playAbAnim cancelled a live interval
    ring,               \* the ringback refs and the WebAudio objects behind them
    greetingAbortRef,   \* 0 is null, else the greeting flow whose controller it holds
    audio,              \* the <audio> element: [src, playing]
    tasks,              \* the async flows started so far (generateGreeting, sendText)
    hangupRun,          \* observation: consecutive hangup() calls just made (capped at 2)
    dialMiss,           \* observation: the last step was a dial that matched no route
    hangupAt,           \* the statements of hangup() already executed by a call
                        \* of it that is followed statement by statement (else 0)
    keyed,              \* observation: the dial-pad key the last step pressed, and
                        \* whether playDtmf() returned
    appendLog           \* observation: ids appended to the transcript since the last clear

uiVars == <<dialed, connectedNumber, dialModalOpen, dialAnimFrame, dialAnimPlaying,
            isMobile, routes>>
dialTimerVars == <<dialAnimTimerRef, dialTimers>>
abVars == <<addressBookOpen, abFrame, abPlaying, abPhase, abTimerRef, abTimers,
           abCancelled>>
chatVars == <<history, appendLog, speaking, chatStatus>>
audioVars == <<audio, ttsPlaying>>
callVars == <<ring, greetingAbortRef, tasks>>

vars == <<appLoading, frameCount, input, hangupRun, dialMiss, keyed, hangupAt, uiVars,
          dialTimerVars, abVars, chatVars, audioVars, callVars>>

(***************************************************************************)
(* Pure helpers.                                                           *)
(***************************************************************************)
Min(a, b) == IF a <= b THEN a ELSE b
Max(a, b) == IF a >= b THEN a ELSE b

\* Array.prototype.slice(-n)
LastN(s, n) == SubSeq(s, Max(1, Len(s) - n + 1), Len(s))

IsDigit(c) == c \in {"0", "1", "2", "3", "4", "5", "6", "7", "8", "9"}

\* d.replace(/\D/g, '').slice(0, 11)
Normalize(d) ==
    LET ds == SelectSeq(d, IsDigit)
    IN SubSeq(ds, 1, Min(Len(ds), MAX_DIGITS))

RECURSIVE TrimLeft(_)
TrimLeft(s) == IF s # <<>> /\ Head(s) = " " THEN TrimLeft(Tail(s)) ELSE s

RECURSIVE TrimRight(_)
TrimRight(s) ==
    IF s # <<>> /\ s[Len(s)] = " " THEN TrimRight(SubSeq(s, 1, Len(s) - 1)) ELSE s

\* String.prototype.trim()
Trim(s) == TrimRight(TrimLeft(s))

(***************************************************************************)
(* Ringback (startRingtone / stopRingtone).  ring.timers and ring.oscs     *)
(* count the live pattern intervals and the running oscillator pairs; the  *)
(* *Ref fields are the refs that name them.  ring.calls is an observation: *)
(* the startRingtone() calls since the last stopRingtone(), capped at 2.   *)
(***************************************************************************)
RingInit ==
    [ctx |-> "none", timerRef |-> FALSE, gainRef |-> FALSE, oscRef |-> FALSE,
     timers |-> 0, oscs |-> 0, on |-> FALSE, calls |-> 0]

\* Mutant of StartRingtone: the "already ringing" test is missing.
StartRingtoneAgain(r) ==
    [r EXCEPT !.ctx = "running", !.gainRef = TRUE, !.oscRef = TRUE,
              !.oscs = @ + 1, !.timers = @ + 1, !.timerRef = TRUE,
              !.on = TRUE, !.calls = Min(@ + 1, 2)]

StartRingtone(r) ==
    IF r.timerRef
    THEN [r EXCEPT !.ctx = IF @ = "none" THEN "suspended" ELSE @,
                   !.calls = Min(@ + 1, 2)]
    ELSE [r EXCEPT !.ctx = "running", !.gainRef = TRUE, !.oscRef = TRUE,
                   !.oscs = @ + 1, !.timers = @ + 1, !.timerRef = TRUE,
                   !.on = TRUE, !.calls = Min(@ + 1, 2)]

\* Mutant of StopRingtone: the oscillators are neither stopped nor released.
StopRingtoneKeepsOscs(r) ==
    [r EXCEPT !.timers = IF r.timerRef THEN @ - 1 ELSE @,
              !.timerRef = FALSE,
              !.gainRef = FALSE,
              !.on = FALSE,
              !.calls = 0,
              !.ctx = IF @ = "none" THEN "none" ELSE "suspended"]

\* stopRingtone(): clear the pattern interval, zero the gain, stop and drop
\* the oscillators and the gain node, suspend the context (never closed).
StopRingtone(r) ==
    [r EXCEPT !.timers = IF r.timerRef THEN @ - 1 ELSE @,
              !.timerRef = FALSE,
              !.oscs = IF r.oscRef THEN @ - 1 ELSE @,
              !.oscRef = FALSE,
              !.gainRef = FALSE,
              !.on = FALSE,
              !.calls = 0,
              !.ctx = IF @ = "none" THEN "none" ELSE "suspended"]

\* The ringback is sounding or in the silent half of its pattern.
RingActive == ring.timers > 0 \/ ring.oscs > 0

(***************************************************************************)
(* The async flows.  pc is the await the flow is suspended at:             *)
(*   greet: fetch -> json -> (animwait) -> tts -> play -> done             *)
(*   send:  chat -> tts -> play -> done                                    *)
(* playRejected: the play() promise was rejected, its continuation has     *)
(* not run yet.                                                            *)
(***************************************************************************)
GreetTask(number, wait, animDone) ==
    [kind |-> "greet", number |-> number, wait |-> wait, animDone |-> animDone,
     aborted |-> FALSE, text |-> <<>>, pc |-> "fetch", starts |-> 0]

SendTask(number) ==
    [kind |-> "send", number |-> number, wait |-> FALSE, animDone |-> TRUE,
     aborted |-> FALSE, text |-> <<>>, pc |-> "chat", starts |-> 0]

\* A flow that has returned or thrown keeps only what can still change or be read.
Finished(t) == [t EXCEPT !.pc = "done", !.text = <<>>, !.number = <<>>]

\* Mutant of Abort: the previous controller is not aborted.
AbortNothing(ts, g) == ts

\* AbortController.abort() of flow g: a pending fetch() rejects, which ends the
\* flow (Promise.all rejects, connectFromDial swallows it); a pending r.json()
\* rejects too, but that rejection is caught inside greetP (see JsonSettle).
Abort(ts, g) ==
    IF g = 0 THEN ts
    ELSE [ts EXCEPT ![g] = IF @.pc = "fetch"
                           THEN Finished([@ EXCEPT !.aborted = TRUE])
                           ELSE [@ EXCEPT !.aborted = TRUE]]

\* pause() and a new src both reject the pending play() promises.
RejectPlays(ts) ==
    [i \in DOMAIN ts |->
        IF ts[i].pc = "play" THEN [ts[i] EXCEPT !.pc = "playRejected"] ELSE ts[i]]

\* Mutant of StopTtsAudio: the element is left playing.
StopTtsAudioNoPause(a) == a

\* stopTts(): pause, rewind, setTtsPlaying(false)
StopTtsAudio(a) == [a EXCEPT !.playing = FALSE]

(***************************************************************************)
(* The transcript.                                                         *)
(***************************************************************************)
UserMsg(t, text) ==
    [id |-> [p |-> "u", n |-> t], role |-> "user", text |-> text, pending |-> FALSE]

\* Mutant of PlaceholderMsg: the bubble is appended as already final.
PlaceholderMsgFinal(t) ==
    [id |-> [p |-> "a", n |-> t], role |-> "assistant", text |-> Placeholder,
     pending |-> FALSE]

PlaceholderMsg(t) ==
    [id |-> [p |-> "a", n |-> t], role |-> "assistant", text |-> Placeholder,
     pending |-> TRUE]

\* Mutant of AppendMsg: the slice is missing.
AppendMsgUncapped(h, m) == Append(h, m)

\* setHistory((h) => [...h, m].slice(-60))
AppendMsg(h, m) == LastN(Append(h, m), HISTORY_CAP)

\* Mutant of Reveal: the text is filled in and the flag is left set.
RevealKeepsPending(h, id, text) ==
    [i \in DOMAIN h |-> IF h[i].id = id THEN [h[i] EXCEPT !.text = text] ELSE h[i]]

\* Mutant of Reveal: the placeholder is left as it is.
RevealNothing(h, id, text) == h

\* setHistory((h) => h.map((m) => (m.id === id ? { ...m, text, pending: false } : m)))
Reveal(h, id, text) ==
    [i \in DOMAIN h |->
        IF h[i].id = id THEN [h[i] EXCEPT !.text = text, !.pending = FALSE] ELSE h[i]]

(***************************************************************************)
(* Commit: the state a handler leaves for the variables the effects read,  *)
(* followed by the effects of the next render.                             *)
(*   - mobile auto-connect: connect as soon as the digits match a route    *)
(*   - hold-last-frame: connected, dial pad open, animation not playing    *)
(* (dialAnimPlayingRef is written by an effect too: between two handlers   *)
(* it equals dialAnimPlaying.)                                             *)
(***************************************************************************)
Ui ==
    [dialed |-> dialed, connectedNumber |-> connectedNumber,
     dialModalOpen |-> dialModalOpen, dialAnimFrame |-> dialAnimFrame,
     dialAnimPlaying |-> dialAnimPlaying, isMobile |-> isMobile, routes |-> routes]

\* Mutant of AutoConnect: the route lookup is skipped.
AutoConnectAnyNumber(u) ==
    LET number == Normalize(u.dialed)
    IN IF u.isMobile /\ u.connectedNumber = <<>> /\ number # <<>>
       THEN [u EXCEPT !.connectedNumber = number]
       ELSE u

\* The mobile auto-connect effect: setConnectedNumber(number) as soon as the
\* digits of the dial buffer are the number of a route.
AutoConnect(u) ==
    LET number == Normalize(u.dialed)
    IN IF u.isMobile /\ u.connectedNumber = <<>> /\ number # <<>> /\ number \in u.routes
       THEN [u EXCEPT !.connectedNumber = number]
       ELSE u

HoldLastFrame(u) ==
    LET changed == <<u.connectedNumber, u.dialModalOpen, u.dialAnimPlaying>>
                   # <<connectedNumber, dialModalOpen, dialAnimPlaying>>
    IN IF changed /\ u.connectedNumber # <<>> /\ u.dialModalOpen /\ ~u.dialAnimPlaying
       THEN [u EXCEPT !.dialAnimFrame = frameCount.dial]
       ELSE u

\* The state setters of a handler take the values v.
Assign(v) ==
    /\ dialed' = v.dialed
    /\ connectedNumber' = v.connectedNumber
    /\ dialModalOpen' = v.dialModalOpen
    /\ dialAnimFrame' = v.dialAnimFrame
    /\ dialAnimPlaying' = v.dialAnimPlaying
    /\ isMobile' = v.isMobile
    /\ routes' = v.routes

Commit(u) == Assign(HoldLastFrame(AutoConnect(u)))

\* The keys of the dial pad, all of them in the DTMF table.
Keys == Digits \cup {"*", "#"}

NoKey == [key |-> "none", tone |-> TRUE]

\* What a handler other than hangup() and onKey() leaves in the observations.
Observed(miss) ==
    hangupRun' = 0 /\ dialMiss' = miss /\ keyed' = NoKey /\ hangupAt' = 0

\* What onKey(k) leaves in the observations once playDtmf(k) has returned.
Keyed(k, miss) ==
    /\ hangupRun' = 0 /\ dialMiss' = miss /\ keyed' = [key |-> k, tone |-> TRUE]
    /\ hangupAt' = 0

\* connectFromDial(d) returns before it changes anything.
NoMatch(d) == Normalize(d) = <<>> \/ Normalize(d) \notin routes

\* Mutant of DialAnimEffectiveFrame: the frame of the animation is shown as it is.
DialAnimFrameAsIs == dialAnimFrame

\* dialAnimEffectiveFrame: the frame of the dial pad that is displayed
DialAnimEffectiveFrame ==
    IF (dialModalOpen \/ connectedNumber # <<>>) /\ ~dialAnimPlaying
    THEN frameCount.dial
    ELSE dialAnimFrame

(***************************************************************************)
(* Startup and window events.                                              *)
(***************************************************************************)
\* the mount effect: critical images preloaded, setAppLoading(false)
AppLoaded ==
    /\ appLoading
    /\ appLoading' = FALSE
    /\ Observed(FALSE)
    /\ UNCHANGED <<frameCount, input, uiVars, dialTimerVars, abVars, chatVars,
                   audioVars, callVars>>

\* refreshConfig(): setRoutes(r.routes)
RefreshConfig ==
    /\ routes # ConfiguredRoutes
    /\ Commit([Ui EXCEPT !.routes = ConfiguredRoutes])
    /\ Observed(FALSE)
    /\ UNCHANGED <<appLoading, frameCount, input, dialTimerVars, abVars, chatVars,
                   audioVars, callVars>>

\* the resize listener: setIsMobile(getIsMobile())
Resize ==
    /\ Commit([Ui EXCEPT !.isMobile = ~isMobile])
    /\ Observed(FALSE)
    /\ UNCHANGED <<appLoading, frameCount, input, dialTimerVars, abVars, chatVars,
                   audioVars, callVars>>

(***************************************************************************)
(* The dial-pad animation.  An interval is [i, onDone]: the closure's      *)
(* counter and what its onDone does.                                       *)
(***************************************************************************)
\* Mutant of PlayDialAnimOnce: the counter and the frame start at 0.
PlayDialAnimFromZero(u, onDone) ==
    LET tm == [i |-> 0, onDone |-> onDone]
    IN /\ dialTimers' = (dialTimers \ dialAnimTimerRef) \cup {tm}
       /\ dialAnimTimerRef' = {tm}
       /\ Commit([u EXCEPT !.dialAnimFrame = 0, !.dialAnimPlaying = TRUE])

\* playDialAnimOnce(onDone), given the state u the caller leaves
PlayDialAnimOnce(u, onDone) ==
    LET tm == [i |-> 1, onDone |-> onDone]
    IN /\ dialTimers' = (dialTimers \ dialAnimTimerRef) \cup {tm}
       /\ dialAnimTimerRef' = {tm}
       /\ Commit([u EXCEPT !.dialAnimFrame = 1, !.dialAnimPlaying = TRUE])

\* stopDialAnim(), given the state u the caller leaves
StopDialAnim(u) ==
    /\ dialTimers' = dialTimers \ dialAnimTimerRef
    /\ dialAnimTimerRef' = {}
    /\ Commit([u EXCEPT !.dialAnimPlaying = FALSE, !.dialAnimFrame = 1])

\* onClick of the frame
FrameClick ==
    /\ ~appLoading
    /\ IF isMobile
       THEN /\ ~dialAnimPlaying
            /\ IF connectedNumber # <<>>
               THEN /\ Commit([Ui EXCEPT !.dialAnimFrame = frameCount.dial])
                    /\ UNCHANGED dialTimerVars
               ELSE PlayDialAnimOnce(Ui, "focus")
       ELSE /\ ~dialModalOpen
            /\ IF connectedNumber # <<>>
               THEN /\ Commit([Ui EXCEPT !.dialAnimFrame = frameCount.dial,
                                         !.dialModalOpen = TRUE])
                    /\ UNCHANGED dialTimerVars
               ELSE /\ ~dialAnimPlaying
                    /\ PlayDialAnimOnce(Ui, "openModal")
    /\ Observed(FALSE)
    /\ UNCHANGED <<appLoading, frameCount, input, abVars, chatVars, audioVars, callVars>>

\* Mutant of DialAnimTick: the last tick puts the frame back to 1.
DialAnimTickRewinds(tm) ==
    /\ tm \in dialTimers
    /\ IF tm.i + 1 > frameCount.dial
       THEN /\ dialTimers' = dialTimers \ dialAnimTimerRef
            /\ dialAnimTimerRef' = {}
            /\ Commit([Ui EXCEPT !.dialAnimPlaying = FALSE,
                                 !.dialAnimFrame = 1,
                                 !.dialModalOpen =
                                     IF tm.onDone = "openModal" THEN TRUE ELSE @])
       ELSE LET tm2 == [tm EXCEPT !.i = tm.i + 1]
            IN /\ dialTimers' = (dialTimers \ {tm}) \cup {tm2}
               /\ dialAnimTimerRef' = IF dialAnimTimerRef = {tm} THEN {tm2}
                                      ELSE dialAnimTimerRef
               /\ Commit([Ui EXCEPT !.dialAnimFrame = tm.i + 1])
    /\ Observed(FALSE)
    /\ UNCHANGED <<appLoading, frameCount, input, abVars, chatVars, audioVars, callVars>>

\* the setInterval callback of playDialAnimOnce
DialAnimTick(tm) ==
    /\ tm \in dialTimers
    /\ IF tm.i + 1 > frameCount.dial
       THEN /\ dialTimers' = dialTimers \ dialAnimTimerRef
            /\ dialAnimTimerRef' = {}
            /\ Commit([Ui EXCEPT !.dialAnimPlaying = FALSE,
                                 !.dialModalOpen =
                                     IF tm.onDone = "openModal" THEN TRUE ELSE @])
       ELSE LET tm2 == [tm EXCEPT !.i = tm.i + 1]
            IN /\ dialTimers' = (dialTimers \ {tm}) \cup {tm2}
               /\ dialAnimTimerRef' = IF dialAnimTimerRef = {tm} THEN {tm2}
                                      ELSE dialAnimTimerRef
               /\ Commit([Ui EXCEPT !.dialAnimFrame = tm.i + 1])
    /\ Observed(FALSE)
    /\ UNCHANGED <<appLoading, frameCount, input, abVars, chatVars, audioVars, callVars>>

(***************************************************************************)
(* The address-book animation.  An interval is [i, dir, to, onDone].       *)
(***************************************************************************)
\* Mutant of PlayAbAnim: the running interval is not cleared.
PlayAbAnimNoCancel(ref, from, to, onDone) ==
    LET tm == [i |-> from, dir |-> IF to >= from THEN 1 ELSE -1, to |-> to,
               onDone |-> onDone]
    IN /\ abTimers' = abTimers \cup {tm}
       /\ abTimerRef' = {tm}
       /\ abFrame' = from
       /\ abPlaying' = TRUE
       /\ abCancelled' = (ref # {})

\* playAbAnim({from, to, onDone}) with ref the value of abTimerRef on entry
PlayAbAnim(ref, from, to, onDone) ==
    LET tm == [i |-> from, dir |-> IF to >= from THEN 1 ELSE -1, to |-> to,
               onDone |-> onDone]
    IN /\ abTimers' = (abTimers \ ref) \cup {tm}
       /\ abTimerRef' = {tm}
       /\ abFrame' = from
       /\ abPlaying' = TRUE
       /\ abCancelled' = (ref # {})

OpenAddressBook ==
    /\ ~appLoading
    /\ ~(addressBookOpen \/ abPlaying)
    /\ addressBookOpen' = TRUE
    /\ abPhase' = "opening"
    /\ PlayAbAnim(abTimerRef, 1, frameCount.ab, "open")
    /\ Observed(FALSE)
    /\ UNCHANGED <<appLoading, frameCount, input, uiVars, dialTimerVars, chatVars,
                   audioVars, callVars>>

\* Mutant of CloseAddressBookBody: the reverse play starts from the last frame.
CloseFromLastFrame ==
    /\ abPhase' = "closing"
    /\ addressBookOpen' = addressBookOpen
    /\ PlayAbAnim(abTimerRef, frameCount.ab, 1, "close")

\* closeAddressBook(): the address-book variables it leaves
CloseAddressBookBody ==
    /\ abPhase' = "closing"
    /\ addressBookOpen' = addressBookOpen
    /\ PlayAbAnim(abTimerRef, Min(Max(abFrame, 1), frameCount.ab), 1, "close")

CloseAddressBook ==
    /\ addressBookOpen
    /\ CloseAddressBookBody
    /\ Observed(FALSE)
    /\ UNCHANGED <<appLoading, frameCount, input, uiVars, dialTimerVars, chatVars,
                   audioVars, callVars>>

\* Mutant of AbTick: the end test is off by one (>= and <= for > and <).
AbTickEndsEarly(tm) ==
    /\ tm \in abTimers
    /\ LET i2 == tm.i + tm.dir
           done == IF tm.dir = 1 THEN i2 >= tm.to ELSE i2 <= tm.to
       IN IF done
          THEN /\ abTimers' = abTimers \ abTimerRef
               /\ abTimerRef' = {}
               /\ abPlaying' = FALSE
               /\ abCancelled' = FALSE
               /\ abFrame' = IF tm.onDone = "close" THEN 1 ELSE tm.to
               /\ addressBookOpen' = IF tm.onDone = "close" THEN FALSE
                                     ELSE addressBookOpen
               /\ abPhase' = CASE tm.onDone = "open" -> "open"
                               [] tm.onDone = "close" -> "opening"
                               [] OTHER -> abPhase
          ELSE LET tm2 == [tm EXCEPT !.i = i2]
               IN /\ abTimers' = (abTimers \ {tm}) \cup {tm2}
                  /\ abTimerRef' = IF abTimerRef = {tm} THEN {tm2} ELSE abTimerRef
                  /\ abFrame' = i2
                  /\ UNCHANGED <<abPlaying, addressBookOpen, abPhase, abCancelled>>
    /\ Observed(FALSE)
    /\ UNCHANGED <<appLoading, frameCount, input, uiVars, dialTimerVars, chatVars,
                   audioVars, callVars>>

\* the setInterval callback of playAbAnim
AbTick(tm) ==
    /\ tm \in abTimers
    /\ LET i2 == tm.i + tm.dir
           done == IF tm.dir = 1 THEN i2 > tm.to ELSE i2 < tm.to
       IN IF done
          THEN /\ abTimers' = abTimers \ abTimerRef
               /\ abTimerRef' = {}
               /\ abPlaying' = FALSE
               /\ abCancelled' = FALSE
               /\ abFrame' = IF tm.onDone = "close" THEN 1 ELSE tm.to
               /\ addressBookOpen' = IF tm.onDone = "close" THEN FALSE
                                     ELSE addressBookOpen
               /\ abPhase' = CASE tm.onDone = "open" -> "open"
                               [] tm.onDone = "close" -> "opening"
                               [] OTHER -> abPhase
          ELSE LET tm2 == [tm EXCEPT !.i = i2]
               IN /\ abTimers' = (abTimers \ {tm}) \cup {tm2}
                  /\ abTimerRef' = IF abTimerRef = {tm} THEN {tm2} ELSE abTimerRef
                  /\ abFrame' = i2
                  /\ UNCHANGED <<abPlaying, addressBookOpen, abPhase, abCancelled>>
    /\ Observed(FALSE)
    /\ UNCHANGED <<appLoading, frameCount, input, uiVars, dialTimerVars, chatVars,
                   audioVars, callVars>>

(***************************************************************************)
(* hangup() and connectFromDial().                                         *)
(***************************************************************************)
\* Mutant of HangupUi: the dial pad is toggled instead of closed.
HangupUiToggle(u) ==
    [u EXCEPT !.connectedNumber = <<>>, !.dialed = <<>>,
              !.dialModalOpen = ~u.dialModalOpen]

\* hangup(): what it leaves of the state the effects read
HangupUi(u) ==
    [u EXCEPT !.connectedNumber = <<>>, !.dialed = <<>>, !.dialModalOpen = FALSE]

\* hangup(): the greeting controller, stopRingtone(), stopTts()
HangupCall ==
    /\ greetingAbortRef' = 0
    /\ ring' = StopRingtone(ring)
    /\ audio' = StopTtsAudio(audio)
    /\ ttsPlaying' = FALSE
    /\ tasks' = RejectPlays(Abort(tasks, greetingAbortRef))

\* hangup(): setInput(''), setHistory([])
HangupChat ==
    /\ input' = <<>>
    /\ history' = <<>>
    /\ appendLog' = <<>>
    /\ UNCHANGED <<speaking, chatStatus>>

HangupBody ==
    /\ HangupCall
    /\ HangupChat
    /\ StopDialAnim(HangupUi(Ui))
    /\ hangupRun' = Min(hangupRun + 1, 2)
    /\ dialMiss' = FALSE
    /\ hangupAt' = 0
    /\ UNCHANGED <<appLoading, frameCount, abVars>>

\* hangup() called through onHangup or the mobile "Hang up" button
Hangup == HangupBody /\ keyed' = NoKey

\* Mutant of HangupOrder: the ringback is stopped before the controller is
\* aborted, and the state is cleared before the TTS audio is stopped.
HangupOrderShuffled ==
    <<"stopRingtone", "abort", "setState", "stopTts", "stopDialAnim">>

\* The statements of hangup() in the order of the source.
HangupOrder ==
    <<"abort", "stopRingtone", "stopTts", "setState", "stopDialAnim">>

\* One statement of hangup(): st is the statement to execute.
HangupStatement(st) ==
    /\ IF st = "abort"
       THEN /\ greetingAbortRef' = 0
            /\ tasks' = Abort(tasks, greetingAbortRef)
       ELSE IF st = "stopTts"
       THEN /\ tasks' = RejectPlays(tasks)
            /\ UNCHANGED greetingAbortRef
       ELSE UNCHANGED <<greetingAbortRef, tasks>>
    /\ ring' = IF st = "stopRingtone" THEN StopRingtone(ring) ELSE ring
    /\ IF st = "stopTts"
       THEN audio' = StopTtsAudio(audio) /\ ttsPlaying' = FALSE
       ELSE UNCHANGED audioVars
    /\ IF st = "setState"
       THEN /\ HangupChat
            /\ Assign(HangupUi(Ui))
            /\ UNCHANGED dialTimerVars
       ELSE IF st = "stopDialAnim"
       THEN /\ StopDialAnim(Ui)
            /\ UNCHANGED <<input, chatVars>>
       ELSE UNCHANGED <<input, chatVars, uiVars, dialTimerVars>>

\* hangup() followed statement by statement; the handler runs to completion,
\* so nothing else runs while hangupAt is not 0.
HangupStep ==
    /\ HangupStatement(HangupOrder[hangupAt + 1])
    /\ hangupAt' = IF hangupAt + 1 = Len(HangupOrder) THEN 0 ELSE hangupAt + 1
    /\ hangupRun' = IF hangupAt + 1 = Len(HangupOrder) THEN Min(hangupRun + 1, 2)
                                                        ELSE hangupRun
    /\ dialMiss' = FALSE
    /\ keyed' = NoKey
    /\ UNCHANGED <<appLoading, frameCount, abVars>>

\* generateGreeting(number, {waitForDialAnimDone}) up to its first await:
\* abort the previous controller, startRingtone(), start the animation wait
\* (which resolves at once unless dialAnimPlayingRef is set), issue the fetch.
GenerateGreeting(number, wait) ==
    /\ greetingAbortRef' = Len(tasks) + 1
    /\ ring' = StartRingtone(ring)
    /\ tasks' = Append(Abort(tasks, greetingAbortRef),
                       GreetTask(number, wait, ~wait \/ ~dialAnimPlaying))

\* Mutant of ConnectFromDial: the route lookup is skipped.
ConnectAnyNumber(d, wait, u) ==
    /\ dialTimers' = dialTimers \ dialAnimTimerRef
    /\ dialAnimTimerRef' = {}
    /\ Commit([u EXCEPT !.dialAnimPlaying = FALSE,
                        !.connectedNumber = Normalize(d),
                        !.dialModalOpen = FALSE,
                        !.dialAnimFrame = frameCount.dial])
    /\ GenerateGreeting(Normalize(d), wait)

\* connectFromDial(d, {waitForDialAnimDone}), given the state u the caller leaves
ConnectFromDial(d, wait, u) ==
    LET number == Normalize(d)
    IN IF number = <<>> \/ number \notin routes
       THEN /\ Commit(u)
            /\ UNCHANGED <<dialTimerVars, callVars>>
       ELSE /\ dialTimers' = dialTimers \ dialAnimTimerRef
            /\ dialAnimTimerRef' = {}
            /\ Commit([u EXCEPT !.dialAnimPlaying = FALSE,
                                !.connectedNumber = number,
                                !.dialModalOpen = FALSE,
                                !.dialAnimFrame = frameCount.dial])
            /\ GenerateGreeting(number, wait)

(***************************************************************************)
(* The dial pad (desktop modal) and the mobile dial input.                 *)
(***************************************************************************)
DialPadShown == ~isMobile /\ dialModalOpen

\* Mutant of OnDigit: the slice is missing.
OnDigitUncapped(k) ==
    /\ DialPadShown
    /\ k \in Digits
    /\ Commit([Ui EXCEPT !.dialed = Append(dialed, k)])
    /\ Keyed(k, FALSE)
    /\ UNCHANGED <<appLoading, frameCount, input, dialTimerVars, abVars, chatVars,
                   audioVars, callVars>>

\* onKey(k) for a digit: setDialed((d) => (d + k).slice(0, 11))
OnDigit(k) ==
    /\ DialPadShown
    /\ k \in Digits
    /\ Commit([Ui EXCEPT !.dialed = SubSeq(Append(dialed, k), 1,
                                           Min(Len(dialed) + 1, MAX_DIGITS))])
    /\ Keyed(k, FALSE)
    /\ UNCHANGED <<appLoading, frameCount, input, dialTimerVars, abVars, chatVars,
                   audioVars, callVars>>

\* onKey('*')
OnStar ==
    /\ DialPadShown
    /\ HangupBody
    /\ keyed' = [key |-> "*", tone |-> TRUE]

\* onKey('#') and the Dial button (disabled while the buffer is empty)
OnHash ==
    /\ DialPadShown
    /\ ConnectFromDial(dialed, FALSE, Ui)
    /\ Keyed("#", NoMatch(dialed))
    /\ UNCHANGED <<appLoading, frameCount, input, abVars, chatVars, audioVars>>

\* onKey(k) when playDtmf(k) throws: beep() constructs an AudioContext with
\* nothing to catch a failure, and playDtmf(k) is the first statement of
\* onKey, so the exception leaves the handler before the key is looked at.
OnKeyToneThrows(k) ==
    /\ DialPadShown
    /\ k \in Keys
    /\ hangupRun' = 0
    /\ dialMiss' = FALSE
    /\ keyed' = [key |-> k, tone |-> FALSE]
    /\ hangupAt' = 0
    /\ UNCHANGED <<appLoading, frameCount, input, uiVars, dialTimerVars, abVars,
                   chatVars, audioVars, callVars>>

DialNow ==
    /\ DialPadShown
    /\ dialed # <<>>
    /\ ConnectFromDial(dialed, FALSE, Ui)
    /\ Observed(NoMatch(dialed))
    /\ UNCHANGED <<appLoading, frameCount, input, abVars, chatVars, audioVars>>

Backspace ==
    /\ DialPadShown
    /\ Commit([Ui EXCEPT !.dialed = SubSeq(dialed, 1, Len(dialed) - 1)])
    /\ Observed(FALSE)
    /\ UNCHANGED <<appLoading, frameCount, input, dialTimerVars, abVars, chatVars,
                   audioVars, callVars>>

ClearDial ==
    /\ DialPadShown
    /\ Commit([Ui EXCEPT !.dialed = <<>>])
    /\ Observed(FALSE)
    /\ UNCHANGED <<appLoading, frameCount, input, dialTimerVars, abVars, chatVars,
                   audioVars, callVars>>

\* onClose of the dial pad
ModalClose ==
    /\ DialPadShown
    /\ IF connectedNumber = <<>>
       THEN StopDialAnim([Ui EXCEPT !.dialModalOpen = FALSE])
       ELSE /\ Commit([Ui EXCEPT !.dialModalOpen = FALSE])
            /\ UNCHANGED dialTimerVars
    /\ Observed(FALSE)
    /\ UNCHANGED <<appLoading, frameCount, input, abVars, chatVars, audioVars, callVars>>

\* onChange of the mobile dial input
MobileType(v) ==
    /\ isMobile
    /\ connectedNumber = <<>>
    /\ Normalize(v) # dialed
    /\ Commit([Ui EXCEPT !.dialed = Normalize(v)])
    /\ Observed(FALSE)
    /\ UNCHANGED <<appLoading, frameCount, input, dialTimerVars, abVars, chatVars,
                   audioVars, callVars>>

\* onClick of an address-book row
SelectContact(number) ==
    /\ addressBookOpen
    /\ abPhase = "open"
    /\ number \in routes
    /\ ConnectFromDial(number, TRUE, [Ui EXCEPT !.dialed = number])
    /\ CloseAddressBookBody
    /\ Observed(NoMatch(number))
    /\ UNCHANGED <<appLoading, frameCount, input, chatVars, audioVars>>

(***************************************************************************)
(* Speaking: the placeholder, playTts() and its continuations.             *)
(***************************************************************************)
\* The tail shared by generateGreeting and sendText for a non-empty text:
\* append the placeholder, setSpeaking(true), playTts() up to its fetch
\* (stopTts() first).  ts is the flows as the caller leaves them.
Speak(t, text, ts) ==
    /\ history' = AppendMsg(history, PlaceholderMsg(t))
    /\ appendLog' = Append(appendLog, PlaceholderMsg(t).id)
    /\ speaking' = TRUE
    /\ audio' = StopTtsAudio(audio)
    /\ ttsPlaying' = FALSE
    /\ tasks' = [RejectPlays(ts) EXCEPT ![t] = [@ EXCEPT !.pc = "tts", !.text = text]]

\* Mutant of Finally: the cleanup leaves the flag as it is.
FinallyKeepsSpeaking(t) ==
    /\ speaking' = speaking
    /\ chatStatus' = IF tasks[t].kind = "send" THEN "ready" ELSE chatStatus

\* The finally block: setSpeaking(false), and setChatStatus('ready') in sendText.
Finally(t) ==
    /\ speaking' = FALSE
    /\ chatStatus' = IF tasks[t].kind = "send" THEN "ready" ELSE chatStatus

\* playTts() after `await fetch('/api/tts')`: a non-success response or a
\* failure returns or throws into the finally block; otherwise the blob becomes
\* the element's src (which ends what was playing) and play() is called.
TtsSettle(t, ok) ==
    /\ t \in DOMAIN tasks
    /\ tasks[t].pc = "tts"
    /\ IF ok
       THEN /\ audio' = [src |-> t, playing |-> FALSE]
            /\ tasks' = [RejectPlays(tasks) EXCEPT ![t] = [@ EXCEPT !.pc = "play"]]
            /\ UNCHANGED <<ttsPlaying, chatVars>>
       ELSE /\ Finally(t)
            /\ tasks' = [tasks EXCEPT ![t] = Finished(@)]
            /\ UNCHANGED <<audioVars, history, appendLog>>
    /\ Observed(FALSE)
    /\ UNCHANGED <<appLoading, frameCount, input, uiVars, dialTimerVars, abVars, ring,
                   greetingAbortRef>>

\* Mutant of OnStart: the callback is invoked whether play() resolved or rejected.
OnStartAlways(t, ok) == [t EXCEPT !.starts = @ + 1]

\* p.then(...) in playTts(): the onStart callback is invoked when play() resolves;
\* starts counts the invocations for this playTts call.
OnStart(t, ok) == [t EXCEPT !.starts = IF ok THEN @ + 1 ELSE @]

\* Mutant of PlaySettle: the placeholder is revealed also when play() rejects.
PlaySettleRevealsAnyway(t, ok) ==
    /\ t \in DOMAIN tasks
    /\ tasks[t].pc \in {"play", "playRejected"}
    /\ ok => tasks[t].pc = "play"
    /\ IF ok
       THEN /\ audio' = [audio EXCEPT !.playing = TRUE]
            /\ ttsPlaying' = TRUE
       ELSE UNCHANGED audioVars
    /\ history' = Reveal(history, PlaceholderMsg(t).id, tasks[t].text)
    /\ Finally(t)
    /\ tasks' = [tasks EXCEPT ![t] = Finished(OnStart(@, ok))]
    /\ Observed(FALSE)
    /\ UNCHANGED <<appLoading, frameCount, input, uiVars, dialTimerVars, abVars, ring,
                   greetingAbortRef, appendLog>>

\* playTts() after play() settles: on success setTtsPlaying(true) and onStart
\* (the reveal), then in both cases the finally block.
PlaySettle(t, ok) ==
    /\ t \in DOMAIN tasks
    /\ tasks[t].pc \in {"play", "playRejected"}
    /\ ok => tasks[t].pc = "play"
    /\ IF ok
       THEN /\ audio' = [audio EXCEPT !.playing = TRUE]
            /\ ttsPlaying' = TRUE
            /\ history' = Reveal(history, PlaceholderMsg(t).id, tasks[t].text)
       ELSE UNCHANGED <<audioVars, history>>
    /\ Finally(t)
    /\ tasks' = [tasks EXCEPT ![t] = Finished(OnStart(@, ok))]
    /\ Observed(FALSE)
    /\ UNCHANGED <<appLoading, frameCount, input, uiVars, dialTimerVars, abVars, ring,
                   greetingAbortRef, appendLog>>

\* onended of the audio element
AudioEnded ==
    /\ audio.playing
    /\ audio' = [audio EXCEPT !.playing = FALSE]
    /\ ttsPlaying' = FALSE
    /\ Observed(FALSE)
    /\ UNCHANGED <<appLoading, frameCount, input, uiVars, dialTimerVars, abVars,
                   chatVars, callVars>>

\* onStopTts (the Stop button, enabled while ttsPlaying)
StopTts ==
    /\ ~isMobile
    /\ ttsPlaying
    /\ audio' = StopTtsAudio(audio)
    /\ ttsPlaying' = FALSE
    /\ tasks' = RejectPlays(tasks)
    /\ Observed(FALSE)
    /\ UNCHANGED <<appLoading, frameCount, input, uiVars, dialTimerVars, abVars,
                   chatVars, ring, greetingAbortRef>>

\* the setInterval callback of startRingtone
RingTick ==
    /\ ring.timers > 0
    /\ ring' = [ring EXCEPT !.on = ~@]
    /\ Observed(FALSE)
    /\ UNCHANGED <<appLoading, frameCount, input, uiVars, dialTimerVars, abVars,
                   chatVars, audioVars, greetingAbortRef, tasks>>

(***************************************************************************)
(* generateGreeting() after its first await.                               *)
(***************************************************************************)
\* `await fetch('/api/chat', {signal})` of greetP settles: a response of any
\* status, or a network error, which rejects the whole flow.
FetchSettle(t, ok) ==
    /\ t \in DOMAIN tasks
    /\ tasks[t].pc = "fetch"
    /\ tasks' = [tasks EXCEPT ![t] = IF ok THEN [@ EXCEPT !.pc = "json"]
                                     ELSE Finished(@)]
    /\ Observed(FALSE)
    /\ UNCHANGED <<appLoading, frameCount, input, uiVars, dialTimerVars, abVars,
                   chatVars, audioVars, ring, greetingAbortRef>>

\* Mutant of GreetJoined: an empty greeting returns before the ringback is stopped.
GreetJoinedEmptyRings(t, greeting, ts) ==
    IF greeting = <<>>
    THEN /\ ring' = ring
         /\ tasks' = [ts EXCEPT ![t] = Finished(@)]
         /\ UNCHANGED <<chatVars, audioVars>>
    ELSE /\ ring' = StopRingtone(ring)
         /\ Speak(t, greeting, ts)
         /\ UNCHANGED chatStatus

\* Mutant of GreetJoined: the ringback is left on when there is a greeting to speak.
GreetJoinedRingsOn(t, greeting, ts) ==
    IF greeting = <<>>
    THEN /\ ring' = StopRingtone(ring)
         /\ tasks' = [ts EXCEPT ![t] = Finished(@)]
         /\ UNCHANGED <<chatVars, audioVars>>
    ELSE /\ ring' = ring
         /\ Speak(t, greeting, ts)
         /\ UNCHANGED chatStatus

\* After `await Promise.all([greetP, animDoneP])`: stopRingtone(), return on an
\* empty greeting, else speak it.  ts is the flows with the join recorded.
GreetJoined(t, greeting, ts) ==
    /\ ring' = StopRingtone(ring)
    /\ IF greeting = <<>>
       THEN /\ tasks' = [ts EXCEPT ![t] = Finished(@)]
            /\ UNCHANGED <<chatVars, audioVars>>
       ELSE /\ Speak(t, greeting, ts)
            /\ UNCHANGED chatStatus

\* `await r.json().catch(() => ({}))` settles: greetP resolves with the trimmed
\* text, '' when the body cannot be read (also when the signal was aborted).
JsonSettle(t, body) ==
    /\ t \in DOMAIN tasks
    /\ tasks[t].pc = "json"
    /\ LET greeting == IF tasks[t].aborted THEN <<>> ELSE Trim(body)
       IN IF tasks[t].animDone
          THEN GreetJoined(t, greeting, tasks)
          ELSE /\ tasks' = [tasks EXCEPT ![t] = [@ EXCEPT !.pc = "animwait",
                                                          !.text = greeting]]
               /\ UNCHANGED <<ring, chatVars, audioVars>>
    /\ Observed(FALSE)
    /\ UNCHANGED <<appLoading, frameCount, input, uiVars, dialTimerVars, abVars,
                   greetingAbortRef>>

\* The 50ms poll of waitForDialAnimToFinish() finds dialAnimPlayingRef clear
\* and resolves animDoneP; the poll reschedules itself until then.
AnimPoll(t) ==
    /\ t \in DOMAIN tasks
    /\ tasks[t].wait /\ ~tasks[t].animDone
    /\ ~dialAnimPlaying
    /\ LET ts == [tasks EXCEPT ![t] = [@ EXCEPT !.animDone = TRUE]]
       IN IF tasks[t].pc = "animwait"
          THEN GreetJoined(t, tasks[t].text, ts)
          ELSE /\ tasks' = ts
               /\ UNCHANGED <<ring, chatVars, audioVars>>
    /\ Observed(FALSE)
    /\ UNCHANGED <<appLoading, frameCount, input, uiVars, dialTimerVars, abVars,
                   greetingAbortRef>>

(***************************************************************************)
(* The chat input and sendText().                                          *)
(***************************************************************************)
\* onChange of the chat input (rendered enabled only while connected)
TypeInput(v) ==
    /\ connectedNumber # <<>>
    /\ input # v
    /\ input' = v
    /\ Observed(FALSE)
    /\ UNCHANGED <<appLoading, frameCount, uiVars, dialTimerVars, abVars, chatVars,
                   audioVars, callVars>>

\* Mutant of SendText: the text is used as typed.
SendTextRaw(userTextRaw) ==
    LET t == Len(tasks) + 1
    IN IF connectedNumber = <<>> \/ userTextRaw = <<>>
       THEN UNCHANGED <<chatVars, tasks>>
       ELSE /\ chatStatus' = "submitted"
            /\ history' = AppendMsg(history, UserMsg(t, userTextRaw))
            /\ appendLog' = Append(appendLog, UserMsg(t, userTextRaw).id)
            /\ tasks' = Append(tasks, SendTask(connectedNumber))
            /\ UNCHANGED speaking

\* sendText(userTextRaw) up to `await fetch('/api/chat')`
SendText(userTextRaw) ==
    LET userText == Trim(userTextRaw)
        t == Len(tasks) + 1
    IN IF connectedNumber = <<>> \/ userText = <<>>
       THEN UNCHANGED <<chatVars, tasks>>
       ELSE /\ chatStatus' = "submitted"
            /\ history' = AppendMsg(history, UserMsg(t, userText))
            /\ appendLog' = Append(appendLog, UserMsg(t, userText).id)
            /\ tasks' = Append(tasks, SendTask(connectedNumber))
            /\ UNCHANGED speaking

\* send() / onSend: setInput(''), sendText(text)
Send ==
    /\ connectedNumber # <<>>
    /\ input' = <<>>
    /\ SendText(input)
    /\ Observed(FALSE)
    /\ UNCHANGED <<appLoading, frameCount, uiVars, dialTimerVars, abVars, audioVars,
                   ring, greetingAbortRef>>

\* Mutant of ChatSettle: an empty reply returns without touching the status.
ChatSettleLeavesStatus(t, ok, body) ==
    /\ t \in DOMAIN tasks
    /\ tasks[t].pc = "chat"
    /\ IF ~ok \/ body = <<>>
       THEN /\ tasks' = [tasks EXCEPT ![t] = Finished(@)]
            /\ UNCHANGED <<chatVars, audioVars, ring>>
       ELSE /\ ring' = StopRingtone(ring)
            /\ Speak(t, body, tasks)
            /\ UNCHANGED chatStatus
    /\ Observed(FALSE)
    /\ UNCHANGED <<appLoading, frameCount, input, uiVars, dialTimerVars, abVars,
                   greetingAbortRef>>

\* sendText() after `await fetch('/api/chat')` and `await r.json().catch(...)`:
\* a network error rejects the flow; an empty text sets the status back; a
\* non-empty text gets its placeholder, stopRingtone() and is spoken.
ChatSettle(t, ok, body) ==
    /\ t \in DOMAIN tasks
    /\ tasks[t].pc = "chat"
    /\ IF ~ok
       THEN /\ tasks' = [tasks EXCEPT ![t] = Finished(@)]
            /\ UNCHANGED <<chatVars, audioVars, ring>>
       ELSE IF body = <<>>
       THEN /\ chatStatus' = "ready"
            /\ tasks' = [tasks EXCEPT ![t] = Finished(@)]
            /\ UNCHANGED <<history, appendLog, speaking, audioVars, ring>>
       ELSE /\ ring' = StopRingtone(ring)
            /\ Speak(t, body, tasks)
            /\ UNCHANGED chatStatus
    /\ Observed(FALSE)
    /\ UNCHANGED <<appLoading, frameCount, input, uiVars, dialTimerVars, abVars,
                   greetingAbortRef>>

(***************************************************************************)
(* Specifications.                                                         *)
(***************************************************************************)
\* The state after the first render of <App/>, for the frame counts fc.
InitWith(fc) ==
    /\ appLoading = TRUE
    /\ routes = {}
    /\ isMobile \in BOOLEAN
    /\ frameCount = fc
    /\ dialed = <<>>
    /\ connectedNumber = <<>>
    /\ input = <<>>
    /\ history = <<>>
    /\ speaking = FALSE
    /\ ttsPlaying = FALSE
    /\ chatStatus = "ready"
    /\ dialModalOpen = FALSE
    /\ dialAnimFrame = 1
    /\ dialAnimPlaying = FALSE
    /\ dialAnimTimerRef = {}
    /\ dialTimers = {}
    /\ addressBookOpen = FALSE
    /\ abFrame = 1
    /\ abPlaying = FALSE
    /\ abPhase = "opening"
    /\ abTimerRef = {}
    /\ abTimers = {}
    /\ abCancelled = FALSE
    /\ ring = RingInit
    /\ greetingAbortRef = 0
    /\ audio = [src |-> 0, playing |-> FALSE]
    /\ tasks = <<>>
    /\ hangupRun = 0
    /\ dialMiss = FALSE
    /\ keyed = NoKey
    /\ hangupAt = 0
    /\ appendLog = <<>>

MayGreet == Len(tasks) < MaxFlows
MaySend == Len(tasks) < MaxFlows

\* Startup.
StartupNext ==
    \/ AppLoaded
    \/ RefreshConfig

\* The desktop dial pad and its animation.
DialPadNext ==
    \/ FrameClick
    \/ \E tm \in dialTimers : DialAnimTick(tm)
    \/ \E k \in Digits : Len(dialed) < MaxDial /\ OnDigit(k)
    \/ OnStar
    \/ MayGreet /\ OnHash
    \/ MayGreet /\ DialNow
    \/ Backspace
    \/ ClearDial
    \/ ModalClose

\* The address book and its animation.
BookNext ==
    \/ OpenAddressBook
    \/ CloseAddressBook
    \/ \E tm \in abTimers : AbTick(tm)
    \/ \E number \in ConfiguredRoutes : MayGreet /\ SelectContact(number)

\* The chat input.
ChatNext ==
    \/ \E v \in RawTexts \cup {<<>>} : TypeInput(v)
    \/ MaySend /\ Send

\* The continuations of the greeting flows.
GreetFlowNext ==
    \/ \E t \in DOMAIN tasks, ok \in BOOLEAN : FetchSettle(t, ok)
    \/ \E t \in DOMAIN tasks, body \in GreetBodies : JsonSettle(t, body)
    \/ \E t \in DOMAIN tasks : AnimPoll(t)

\* The continuations of sendText and of playTts, and the audio element.
SpeakFlowNext ==
    \/ \E t \in DOMAIN tasks, ok \in BOOLEAN, body \in ChatBodies : ChatSettle(t, ok, body)
    \/ \E t \in DOMAIN tasks, ok \in BOOLEAN : TtsSettle(t, ok)
    \/ \E t \in DOMAIN tasks, ok \in BOOLEAN : PlaySettle(t, ok)
    \/ AudioEnded

(***************************************************************************)
(* Spec: calls placed from the desktop dial pad.                           *)
(***************************************************************************)
Init ==
    /\ InitWith([dial |-> DialFrames, ab |-> AbFrames])
    /\ isMobile = FALSE

Next ==
    \/ StartupNext
    \/ DialPadNext
    \/ ChatNext
    \/ Hangup
    \/ StopTts
    \/ \E t \in DOMAIN tasks, ok \in BOOLEAN : FetchSettle(t, ok)
    \/ \E t \in DOMAIN tasks, body \in GreetBodies : JsonSettle(t, body)
    \/ SpeakFlowNext

Spec == Init /\ [][Next]_vars

(***************************************************************************)
(* SpecKeys: the desktop dial pad where an audio context is not always      *)
(* available to the key tones.                                             *)
(***************************************************************************)
NextKeys ==
    \/ Next
    \/ \E k \in Keys : OnKeyToneThrows(k)

SpecKeys == Init /\ [][NextKeys]_vars

(***************************************************************************)
(* SpecSteps: the desktop dial pad and the chat, with hangup() followed     *)
(* statement by statement.                                                 *)
(***************************************************************************)
NextSteps ==
    \/ /\ hangupAt = 0
       /\ \/ StartupNext
          \/ DialPadNext
          \/ ChatNext
          \/ StopTts
          \/ \E t \in DOMAIN tasks, ok \in BOOLEAN : FetchSettle(t, ok)
          \/ \E t \in DOMAIN tasks, body \in GreetBodies : JsonSettle(t, body)
          \/ SpeakFlowNext
    \/ HangupStep

SpecSteps == Init /\ [][NextSteps]_vars

(***************************************************************************)
(* SpecSend: the desktop dial pad and the chat, where the input may also    *)
(* hold white space only.                                                  *)
(***************************************************************************)
NextSend ==
    \/ Next
    \/ \E v \in BlankTexts : TypeInput(v)

SpecSend == Init /\ [][NextSend]_vars

(***************************************************************************)
(* SpecDial: dialing on the desktop dial pad, in the mobile dial input and  *)
(* from the address book, up to the connect; the dial buffer may fill up.   *)
(***************************************************************************)
InitDial == InitWith([dial |-> DialFrames, ab |-> AbFrames])

NextDial ==
    \/ StartupNext
    \/ Resize
    \/ FrameClick
    \/ \E tm \in dialTimers : DialAnimTick(tm)
    \/ \E k \in DialKeys : OnDigit(k)
    \/ \E k \in Keys : OnKeyToneThrows(k)
    \/ OnStar
    \/ MayGreet /\ OnHash
    \/ MayGreet /\ DialNow
    \/ Backspace
    \/ ClearDial
    \/ ModalClose
    \/ \E v \in MobileTexts : MobileType(v)
    \/ BookNext
    \/ Hangup

SpecDial == InitDial /\ [][NextDial]_vars

(***************************************************************************)
(* SpecOverlap: one call from the desktop dial pad in which a message may   *)
(* be sent while an earlier one is still in flight (the Enter key submits   *)
(* whatever the status).                                                   *)
(***************************************************************************)
NextOverlap ==
    \/ StartupNext
    \/ FrameClick
    \/ \E tm \in dialTimers : DialAnimTick(tm)
    \/ \E k \in Digits : Len(dialed) < MaxDial /\ OnDigit(k)
    \/ tasks = <<>> /\ OnHash
    \/ \E v \in RawTexts : TypeInput(v)
    \/ Len(tasks) < MaxOverlap /\ Send
    \/ \E t \in DOMAIN tasks, ok \in BOOLEAN : FetchSettle(t, ok)
    \/ \E t \in DOMAIN tasks, body \in GreetBodies : JsonSettle(t, body)
    \/ SpeakFlowNext

SpecOverlap == Init /\ [][NextOverlap]_vars

(***************************************************************************)
(* SpecBook: calls placed from the address book (the path that asks the    *)
(* greeting flow to wait for the dial animation), with the chat.           *)
(***************************************************************************)
NextBook ==
    \/ StartupNext
    \/ FrameClick
    \/ \E tm \in dialTimers : DialAnimTick(tm)
    \/ BookNext
    \/ ChatNext
    \/ Hangup
    \/ GreetFlowNext
    \/ SpeakFlowNext

SpecBook == Init /\ [][NextBook]_vars

(***************************************************************************)
(* SpecTranscript: one call after another with the sends of a call issued  *)
(* one at a time, long enough for the transcript to pass its cap.  The     *)
(* outcomes of the requests are left open for the first OpenRounds flows   *)
(* and succeed afterwards; redials and hang-ups happen in that prefix.     *)
(***************************************************************************)
AllDone == \A t \in DOMAIN tasks : tasks[t].pc = "done"
OpenRound == Len(tasks) <= OpenRounds
Outcomes == IF OpenRound THEN BOOLEAN ELSE {TRUE}
Replies == IF OpenRound THEN ChatBodies ELSE {<<"r">>}

NextTranscript ==
    \/ StartupNext
    \/ FrameClick
    \/ \E tm \in dialTimers : DialAnimTick(tm)
    \/ \E k \in Digits : Len(dialed) < MaxDial /\ OnDigit(k)
    \/ Len(tasks) < OpenRounds /\ OnHash
    \/ OpenRound /\ Hangup
    \/ \E v \in RawTexts : AllDone /\ TypeInput(v)
    \/ AllDone /\ Len(tasks) < MaxAppendSends /\ Send
    \/ \E t \in DOMAIN tasks, ok \in Outcomes : FetchSettle(t, ok)
    \/ \E t \in DOMAIN tasks, body \in GreetBodies : JsonSettle(t, body)
    \/ \E t \in DOMAIN tasks, ok \in Outcomes, body \in Replies : ChatSettle(t, ok, body)
    \/ \E t \in DOMAIN tasks, ok \in Outcomes : TtsSettle(t, ok)
    \/ \E t \in DOMAIN tasks, ok \in Outcomes : PlaySettle(t, ok)

SpecTranscript == Init /\ [][NextTranscript]_vars

(***************************************************************************)
(* SpecScenario: the end-to-end call.  One dial from the dial pad, every   *)
(* request succeeds with a non-empty text, one message is sent once the    *)
(* greeting's audio has started, and the call is hung up after the reply's *)
(* audio has started.                                                      *)
(***************************************************************************)
NonEmptyGreetings == {b \in GreetBodies : Trim(b) # <<>>}
NonEmptyReplies == ChatBodies \ {<<>>}
GreetingSpoken == Len(tasks) >= 1 /\ tasks[1].pc = "done"
ReplySpoken == Len(tasks) = 2 /\ AllDone

NextScenario ==
    \/ tasks = <<>> /\ StartupNext
    \/ ~ReplySpoken /\ FrameClick
    \/ \E tm \in dialTimers : DialAnimTick(tm)
    \/ \E k \in Digits : ~ReplySpoken /\ Len(dialed) < MaxDial /\ OnDigit(k)
    \/ ~ReplySpoken /\ Backspace
    \/ ~ReplySpoken /\ ClearDial
    \/ tasks = <<>> /\ OnHash
    \/ tasks = <<>> /\ DialNow
    \/ ~ReplySpoken /\ ModalClose
    \/ \E t \in DOMAIN tasks : FetchSettle(t, TRUE)
    \/ \E t \in DOMAIN tasks, body \in NonEmptyGreetings : JsonSettle(t, body)
    \/ \E v \in RawTexts \cup {<<>>} : Len(tasks) >= 1 /\ ~ReplySpoken /\ TypeInput(v)
    \/ Len(tasks) = 1 /\ GreetingSpoken /\ Send
    \/ \E t \in DOMAIN tasks, body \in NonEmptyReplies : ChatSettle(t, TRUE, body)
    \/ \E t \in DOMAIN tasks : TtsSettle(t, TRUE)
    \/ \E t \in DOMAIN tasks : PlaySettle(t, TRUE)
    \/ ~ReplySpoken /\ AudioEnded
    \/ StopTts
    \/ ReplySpoken /\ Hangup

SpecScenario == Init /\ [][NextScenario]_vars

(***************************************************************************)
(* SpecLive: Spec with the promises of playTts() settling: the request to  *)
(* /api/tts gets a response or fails, and play() resolves or rejects.      *)
(***************************************************************************)
SettleSpeak ==
    \E t \in DOMAIN tasks, ok \in BOOLEAN : TtsSettle(t, ok) \/ PlaySettle(t, ok)

SpecLive == Init /\ [][Next]_vars /\ WF_vars(SettleSpeak)

(***************************************************************************)
(* SpecAnim: the two sprite animations at their real lengths, interleaved  *)
(* with connects from the address book and hang-ups.  The requests         *)
(* of the calls stay pending: they do not touch the animations.            *)
(***************************************************************************)
InitAnim ==
    /\ InitWith([dial |-> DIAL_ANIM_LAST_FRAME, ab |-> AB_ANIM_LAST_FRAME])
    /\ isMobile = FALSE

NextAnim ==
    \/ StartupNext
    \/ FrameClick
    \/ \E tm \in dialTimers : DialAnimTick(tm)
    \/ ModalClose
    \/ BookNext
    \/ Hangup

SpecAnim == InitAnim /\ [][NextAnim]_vars

\* The interval of the address-book animation keeps firing while it is set.
AbTicks == \E tm \in abTimers : AbTick(tm)

SpecAnimLive == InitAnim /\ [][NextAnim]_vars /\ WF_vars(AbTicks)

(***************************************************************************)
(* Properties.                                                             *)
(***************************************************************************)
\* Every variable of the program (all but hangupAt and the observations
\* hangupRun, dialMiss and keyed).
progVars ==
    <<appLoading, frameCount, input, uiVars, dialTimerVars, abVars, chatVars,
      audioVars, callVars>>

\* The step starts a greeting flow: a dial that matched a route.
SuccessfulDial ==
    /\ Len(tasks') = Len(tasks) + 1
    /\ tasks'[Len(tasks')].kind = "greet"

\* The id of the assistant message of flow t.
AssistantId(t) == [p |-> "a", n |-> t]

\* The step is the audio start of flow t's speak: play() resolved, onStart ran.
AudioStartOf(t) ==
    /\ t \in DOMAIN tasks
    /\ tasks[t].pc = "play"
    /\ tasks'[t].pc = "done"
    /\ audio'.playing
    /\ audio'.src = t

\* C1: a successful dial issued while a call is connected leaves an empty
\* transcript and no TTS audio playing (the previous session is hung up first).
C1_DialHangsUpPrevious ==
    [][(connectedNumber # <<>> /\ SuccessfulDial)
         => (history' = <<>> /\ ~audio'.playing)]_vars

\* C3: when a speak issues its synthesis request the transcript holds its
\* message as a pending placeholder; the message shows anything else only from
\* the step in which that speak's audio starts.
C3_PlaceholderThenReveal ==
    [][\A t \in DOMAIN tasks' :
         /\ (tasks'[t].pc = "tts" /\ (t \notin DOMAIN tasks \/ tasks[t].pc # "tts"))
              => \E i \in DOMAIN history' :
                    /\ history'[i].id = AssistantId(t)
                    /\ history'[i].text = Placeholder
                    /\ history'[i].pending
         /\ \A i \in DOMAIN history' :
              (/\ history'[i].id = AssistantId(t)
               /\ (~history'[i].pending \/ history'[i].text # Placeholder))
              => \/ \E j \in DOMAIN history : history[j] = history'[i]
                 \/ AudioStartOf(t)]_vars

\* C3 witness: a revealed assistant message next to a still pending one.
C3_Witness ==
    /\ \E i \in DOMAIN history :
          /\ history[i].role = "assistant"
          /\ ~history[i].pending
          /\ history[i].text # Placeholder
    /\ \E i \in DOMAIN history : history[i].pending

\* C4: once a newer dial has superseded greeting flow t, the settling of t's
\* request changes nothing of the newer call.
C4_SupersededGreetingChangesNothing ==
    [][\A t \in DOMAIN tasks :
         (/\ tasks[t].kind = "greet"
          /\ tasks[t].aborted
          /\ greetingAbortRef \notin {0, t}
          /\ tasks[t].pc \in {"fetch", "json"}
          /\ tasks'[t].pc # tasks[t].pc)
         => UNCHANGED <<history, ring, audio, speaking, connectedNumber>>]_vars

\* C5: while no call is connected (after a hang-up, until the next dial) the
\* transcript is empty and no TTS audio plays.
C5_NothingAfterHangup ==
    connectedNumber = <<>> => (history = <<>> /\ ~audio.playing)

\* No call, nothing dialed, the dial pad closed and at rest, silence, and no
\* flow in flight.
Idle ==
    /\ connectedNumber = <<>> /\ dialed = <<>> /\ input = <<>> /\ history = <<>>
    /\ ~dialModalOpen /\ ~dialAnimPlaying /\ dialAnimFrame = 1 /\ dialTimers = {}
    /\ ~RingActive /\ ~audio.playing /\ ~ttsPlaying
    /\ greetingAbortRef = 0
    /\ \A t \in DOMAIN tasks : tasks[t].pc = "done"

\* C6: a hangup right after a hangup, or in the idle state, changes nothing.
C6_HangupIdempotent ==
    [][(hangupRun' >= 1 /\ (hangupRun >= 1 \/ Idle)) => UNCHANGED progVars]_vars

\* C6 witness: two hangups in a row while a flow of the call is still in flight.
C6_Witness ==
    /\ hangupRun = 2
    /\ \E t \in DOMAIN tasks : tasks[t].pc \notin {"done"}

\* C7: the state right after hangup().
C7_HangupPostcondition ==
    hangupRun >= 1 =>
        /\ connectedNumber = <<>> /\ dialed = <<>> /\ input = <<>> /\ history = <<>>
        /\ ~ring.timerRef /\ ring.timers = 0
        /\ ~ring.oscRef /\ ring.oscs = 0 /\ ~ring.gainRef
        /\ ~audio.playing
        /\ greetingAbortRef = 0
        /\ \A t \in DOMAIN tasks : tasks[t].kind = "greet" => tasks[t].aborted
        /\ dialAnimTimerRef = {} /\ dialTimers = {}
        /\ ~dialAnimPlaying /\ dialAnimFrame = 1

\* C7 witness: a hangup that cut off a call whose speak was about to start.
C7_Witness ==
    /\ hangupRun = 1
    /\ ring.ctx = "suspended"
    /\ \E t \in DOMAIN tasks : tasks[t].pc = "playRejected"

\* C9: the ringback is never active while TTS audio plays.
C9_RingNeverOverTts == ~(RingActive /\ audio.playing)


\* The greeting flow t has not yet passed its join (Promise.all).
PreJoin(t) == tasks[t].pc \in {"fetch", "json", "animwait"}

\* C2: for the current call attempt, entered through the address book, no step
\* other than a hangup silences the ringback before the attempt's greeting has
\* resolved and its animation wait has completed.
C2_RingUntilBothDone ==
    [][\A g \in DOMAIN tasks :
         (/\ g = greetingAbortRef
          /\ tasks[g].wait
          /\ PreJoin(g)
          /\ RingActive /\ ~RingActive'
          /\ Observed(FALSE))
         => (/\ tasks[g].pc # "fetch"
             /\ tasks'[g].animDone
             /\ tasks'[g].pc \notin {"fetch", "json", "animwait"})]_vars


\* The ids of the transcript, in order.
HistoryIds == [i \in DOMAIN history |-> history[i].id]

\* C8: the transcript never holds more than 60 messages, and it holds exactly
\* the most recent min(k, 60) of the k messages appended since the last clear,
\* in the order they were appended.
C8_TranscriptBound ==
    /\ Len(history) <= HISTORY_CAP
    /\ HistoryIds = LastN(appendLog, HISTORY_CAP)

\* C8 witness: more than 60 messages were appended since the last clear, so
\* the oldest ones have been evicted.
C8_Witness ==
    /\ Len(appendLog) > HISTORY_CAP
    /\ Len(history) = HISTORY_CAP
    /\ HistoryIds[1] # appendLog[1]


\* C10: once the reply's audio has started the call is connected, the ringback
\* is silent and the transcript is [greeting, user message, reply] with nothing
\* pending; after the hang-up the transcript is empty and the state is idle.
C10_EndToEnd ==
    ReplySpoken =>
        IF hangupRun = 0
        THEN /\ connectedNumber \in routes
             /\ ~RingActive
             /\ Len(history) = 3
             /\ history[1].id = AssistantId(1)
             /\ history[1].text \in {Trim(b) : b \in NonEmptyGreetings}
             /\ history[2].role = "user"
             /\ history[2].text \in {Trim(v) : v \in RawTexts}
             /\ history[3].id = AssistantId(2)
             /\ history[3].text \in NonEmptyReplies
             /\ \A i \in 1..3 : ~history[i].pending /\ history[i].text # Placeholder
        ELSE history = <<>> /\ Idle

\* C10 witness: the scenario ran to its end and the call was hung up.
C10_Witness ==
    /\ ReplySpoken
    /\ hangupRun = 1
    /\ audio.src = 2


\* C11: a dial whose number is empty or matches no route changes nothing of
\* the program: connected number, transcript, ringback, greeting controller,
\* dial buffer, animation and flows are as before.
C11_WrongNumberChangesNothing ==
    [][dialMiss' => UNCHANGED progVars]_vars

\* C11 witness: the unconfigured number 3 was dialed with the routes loaded.
C11_Witness ==
    /\ dialMiss
    /\ dialed = <<"3">>
    /\ routes = ConfiguredRoutes


\* C12: once the greeting flow of the current call attempt has ended, whatever
\* the outcome of its request, the ringback is stopped (and the call is still
\* connected).
C12_RingStoppedWhenGreetingEnds ==
    \A g \in DOMAIN tasks :
        (g = greetingAbortRef /\ tasks[g].pc = "done")
            => (~RingActive /\ connectedNumber # <<>>)


\* C13: whenever the speaking flag is true it is false again later, whatever
\* the outcome of the TTS request and of play().
C13_SpeakingIsReset == speaking ~> ~speaking

\* C13 witness: a speak whose audio never started (its bubble is still
\* pending) has ended and the flag is down.
C13_Witness ==
    /\ ~speaking
    /\ AllDone
    /\ \E i \in DOMAIN history : history[i].pending


\* Flow t is a sendText call that has not returned or thrown yet.
SendInFlight(t) == tasks[t].kind = "send" /\ tasks[t].pc # "done"

\* C14: while the chat status is 'submitted' a sendText call is still on its
\* way to set it back to 'ready'.
C14_SubmittedIsSetBack ==
    chatStatus = "submitted" => \E t \in DOMAIN tasks : SendInFlight(t)

\* Connecting: a number is connected and the greeting of the current attempt
\* has not passed its join yet (greeting fetch and ringback in flight).
Connecting ==
    /\ connectedNumber # <<>>
    /\ greetingAbortRef # 0
    /\ PreJoin(greetingAbortRef)

\* C15: a user message enters the transcript, a chat request is issued and the
\* chat status changes through a send only while Connected, not while
\* Connecting, Dialing or Idle.
C15_SendOnlyWhenConnected ==
    [][(/\ Len(tasks') = Len(tasks) + 1
        /\ tasks'[Len(tasks')].kind = "send")
       => (connectedNumber # <<>> /\ ~Connecting)]_vars


\* The step is a tick of the address-book interval tm: it ends the interval
\* or advances its counter.
AbTickOf(tm) ==
    /\ abTimers' # abTimers
    /\ abTimers' = {} \/ abTimers' = {[tm EXCEPT !.i = tm.i + tm.dir]}

\* C16: every tick of playAbAnim but the last moves the frame by one step
\* towards `to` without passing it; the last tick finds the frame at `to`,
\* leaves it there, clears the timer, sets playing to false and runs onDone,
\* after which no interval is left to run it again.
C16_AbAnimClamp ==
    [][\A tm \in abTimers :
         AbTickOf(tm) =>
            IF abTimers' = {}
            THEN /\ abFrame = tm.to /\ abFrame' = tm.to
                 /\ abTimerRef' = {}
                 /\ ~abPlaying'
                 /\ tm.onDone = "open" => abPhase' = "open"
                 /\ tm.onDone = "close" => (~addressBookOpen' /\ abPhase' = "opening")
            ELSE /\ abFrame' = abFrame + tm.dir
                 /\ tm.dir = -1 => (tm.to <= abFrame' /\ abFrame' < abFrame)
                 /\ tm.dir = 1 => (abFrame < abFrame' /\ abFrame' <= tm.to)
                 /\ abPlaying']_vars

\* C16 witness: a reverse play that interrupted the opening has run down to
\* frame 1 and waits for its last tick.
C16_Witness ==
    /\ abCancelled
    /\ abPhase = "closing"
    /\ \E tm \in abTimers : tm.dir = -1 /\ tm.i = 1 /\ tm.to = 1

\* C17: each animator has at most one live interval, the one its ref names.
C17_OneTimerPerAnimator ==
    /\ Cardinality(dialTimers) <= 1 /\ dialTimers = dialAnimTimerRef
    /\ Cardinality(abTimers) <= 1 /\ abTimers = abTimerRef

\* C17 witness: a play of the address-book animation was started while one
\* was running, and the dial animation runs at the same time.
C17_Witness ==
    /\ abCancelled
    /\ abTimers # {}
    /\ dialTimers # {}

\* C18: the dial frame is within [1, 120] and the address-book frame within
\* [1, 192].
C18_FrameRange ==
    /\ dialAnimFrame \in 1..DIAL_ANIM_LAST_FRAME
    /\ abFrame \in 1..AB_ANIM_LAST_FRAME

\* C18 witness: a contact was selected with the book fully open: the dial frame
\* is held at 120 and the reverse play starts from 192.
C18_Witness ==
    /\ dialAnimFrame = DIAL_ANIM_LAST_FRAME
    /\ abFrame = AB_ANIM_LAST_FRAME
    /\ abPhase = "closing"
    /\ connectedNumber # <<>>


\* C19: at most one ring pattern timer and one oscillator pair exist, and a
\* startRingtone() while the ringback is active changes nothing of it.
C19_OneRingback ==
    /\ ring.timers <= 1
    /\ ring.oscs <= 1
    /\ ring.calls >= 1 => (ring.timers = 1 /\ ring.oscs = 1 /\ ring.ctx = "running")

\* C19 witness: startRingtone() was called again while the ringback was active.
C19_Witness ==
    /\ ring.calls = 2
    /\ RingActive


\* The greeting flows whose request is in flight with a signal not aborted.
LiveGreetingFetches ==
    {t \in DOMAIN tasks : /\ tasks[t].kind = "greet"
                          /\ tasks[t].pc \in {"fetch", "json"}
                          /\ ~tasks[t].aborted}

\* C20: the only greeting request in flight whose signal is not aborted is the
\* one of the controller greetingAbortRef holds: a new dial has aborted the
\* previous one, and after a hang-up there is none.
C20_SingleGreetingFetch ==
    /\ Cardinality(LiveGreetingFetches) <= 1
    /\ LiveGreetingFetches \subseteq {greetingAbortRef}

\* C20 witness: a superseded attempt whose response is still being read, next
\* to the request of the current attempt.
C20_Witness ==
    /\ Len(tasks) >= 2
    /\ tasks[1].kind = "greet" /\ tasks[1].aborted /\ tasks[1].pc = "json"
    /\ LiveGreetingFetches = {2}


\* C21: onStart is invoked at most once per playTts call, and only in the step
\* in which that call's audio starts playing: the text was non-empty, the TTS
\* response had arrived with success, and play() resolved. Every audio start
\* invokes it.
C21_OnStartOnceAtPlayback ==
    [][\A t \in DOMAIN tasks :
         /\ tasks'[t].starts # tasks[t].starts
              => /\ tasks[t].starts = 0 /\ tasks'[t].starts = 1
                 /\ tasks[t].pc = "play"
                 /\ tasks[t].text # <<>>
                 /\ audio.src = t
                 /\ audio'.playing
         /\ AudioStartOf(t) => tasks'[t].starts = 1]_vars

\* A playTts call whose TTS response was a failure or whose play() was rejected
\* has finished next to one whose audio started.
C21_Witness ==
    \E t, u \in DOMAIN tasks :
        /\ tasks[t].pc = "done" /\ tasks[t].starts = 1
        /\ tasks[u].pc = "done" /\ tasks[u].starts = 0
        /\ \E i \in DOMAIN history : history[i].id = AssistantId(u)

\* C22: a key press whose tone could not be produced still does what the key
\* does: a digit is appended to the dial buffer (up to 11 digits), '*' hangs
\* up, and '#' dials the buffer.
C22_KeyActsWithoutTone ==
    [][(keyed'.key # "none" /\ ~keyed'.tone) =>
         /\ keyed'.key \in Digits =>
                dialed' = SubSeq(Append(dialed, keyed'.key), 1,
                                 Min(Len(dialed) + 1, MAX_DIGITS))
         /\ keyed'.key = "*" => (dialed' = <<>> /\ connectedNumber' = <<>> /\ ~dialModalOpen')
         /\ (keyed'.key = "#" /\ ~NoMatch(dialed)) => SuccessfulDial]_vars

\* C23: a press of '*' clears the dial buffer, and while a call is connected it
\* hangs the call up (no connected number, empty transcript, no ringback, no
\* TTS audio); the dial buffer never holds anything but digits.
C23_StarClears ==
    [][/\ keyed'.key = "*" =>
            /\ dialed' = <<>>
            /\ connectedNumber # <<>> =>
                   /\ connectedNumber' = <<>> /\ history' = <<>>
                   /\ ~RingActive' /\ ~audio'.playing
       /\ \A i \in DOMAIN dialed' : IsDigit(dialed'[i])]_vars

\* C24: hangup() goes through its steps in this order: it aborts the greeting
\* controller; then stops the ringback; then stops the TTS audio; then clears
\* the connected number, the dial buffer, the chat input and the transcript;
\* then resets the dial animation.  Each step leaves alone what the later steps
\* stop or clear.
C24_HangupOrder ==
    [][/\ (hangupAt = 0 /\ hangupAt' = 1) =>
            /\ greetingAbortRef' = 0
            /\ greetingAbortRef # 0 => tasks'[greetingAbortRef].aborted
            /\ UNCHANGED <<ring, audioVars, input, chatVars, uiVars, dialTimerVars>>
       /\ (hangupAt = 1 /\ hangupAt' = 2) =>
            /\ ~RingActive'
            /\ UNCHANGED <<greetingAbortRef, tasks, audioVars, input, chatVars, uiVars,
                           dialTimerVars>>
       /\ (hangupAt = 2 /\ hangupAt' = 3) =>
            /\ ~audio'.playing /\ ~ttsPlaying'
            /\ UNCHANGED <<greetingAbortRef, ring, input, chatVars, uiVars,
                           dialTimerVars>>
       /\ (hangupAt = 3 /\ hangupAt' = 4) =>
            /\ connectedNumber' = <<>> /\ dialed' = <<>>
            /\ input' = <<>> /\ history' = <<>>
            /\ UNCHANGED <<callVars, audioVars, dialAnimFrame, dialAnimPlaying,
                           dialTimerVars>>
       /\ (hangupAt = 4 /\ hangupAt' = 0) =>
            /\ ~dialAnimPlaying' /\ dialAnimFrame' = 1 /\ dialAnimTimerRef' = {}
            /\ UNCHANGED <<callVars, audioVars, input, chatVars, connectedNumber,
                           dialed>>]_vars

\* A hangup of a call that is ringing, with a user message in the transcript,
\* has aborted the greeting request and has not yet stopped the ringback or
\* cleared the state.
C24_Witness ==
    /\ hangupAt = 1
    /\ greetingAbortRef = 0
    /\ \E t \in DOMAIN tasks : tasks[t].kind = "greet" /\ tasks[t].aborted
    /\ RingActive
    /\ connectedNumber # <<>> /\ history # <<>>

\* The 50ms poll of the animation wait of flow t is still scheduled.
PollScheduled(t) == tasks[t].wait /\ ~tasks[t].animDone

\* C25: right after a hangup no timer of the call is scheduled: no ring
\* pattern timer, no dial animation timer, and no animation-wait poll.
C25_NoTimersAfterHangup ==
    hangupRun >= 1 =>
        /\ ring.timers = 0 /\ ~ring.timerRef
        /\ dialTimers = {} /\ dialAnimTimerRef = {}
        /\ \A t \in DOMAIN tasks : ~PollScheduled(t)

\* C26: a dial that matches a route leaves the previous greeting controller
\* aborted, the ringback on, and exactly one new greeting request, for the
\* number dialed, as the current one.  When a greeting flow passes its join with
\* a non-empty greeting, the ringback is off in the state in which its
\* placeholder has been appended and its TTS request issued, and nothing of it
\* plays yet.
C26_DialSequence ==
    [][/\ SuccessfulDial =>
            LET g == Len(tasks')
            IN /\ greetingAbortRef # 0 => tasks'[greetingAbortRef].aborted
               /\ RingActive'
               /\ greetingAbortRef' = g
               /\ tasks'[g].pc = "fetch" /\ ~tasks'[g].aborted
               /\ tasks'[g].number = connectedNumber'
               /\ \A t \in DOMAIN tasks : tasks'[t].pc = "fetch" => tasks[t].pc = "fetch"
       /\ \A t \in DOMAIN tasks :
            (PreJoin(t) /\ tasks'[t].pc = "tts") =>
                /\ tasks'[t].text # <<>>
                /\ ~RingActive'
                /\ history' # <<>>
                /\ history'[Len(history')] = PlaceholderMsg(t)
                /\ ~audio'.playing]_vars

\* A redial while the previous greeting was still being fetched has joined with
\* a non-empty greeting: its placeholder is in the transcript.
C26_Witness ==
    \E t, u \in DOMAIN tasks :
        /\ t < u
        /\ tasks[t].kind = "greet" /\ tasks[t].aborted
        /\ tasks[u].kind = "greet" /\ tasks[u].pc = "tts"
        /\ \E i \in DOMAIN history : history[i] = PlaceholderMsg(u)
        /\ ~RingActive

\* C27: a send in a connected call whose text is not blank appends exactly one
\* message to the transcript, a user message with the trimmed text and not
\* pending, in the step that issues the chat request (so before it resolves); a
\* send of a blank text leaves the transcript and the status alone and issues
\* no request.
C27_UserMessageAtOnce ==
    [][Send =>
         IF Trim(input) = <<>>
         THEN UNCHANGED <<history, chatStatus, speaking, tasks>>
         ELSE LET m == history'[Len(history')]
                  t == Len(tasks')
              IN /\ history' # <<>>
                 /\ m.role = "user" /\ m.text = Trim(input) /\ ~m.pending
                 /\ history' = LastN(Append(history, m), HISTORY_CAP)
                 /\ \A i \in DOMAIN history : history[i].id # m.id
                 /\ Len(tasks') = Len(tasks) + 1
                 /\ tasks'[t].kind = "send" /\ tasks'[t].pc = "chat"
                 /\ \A u \in DOMAIN tasks : tasks'[u] = tasks[u]]_vars

\* A message typed with leading white space is in the transcript, trimmed,
\* while its chat request is pending and the input is empty again.
C27_Witness ==
    \E t \in DOMAIN tasks :
        /\ tasks[t].kind = "send" /\ tasks[t].pc = "chat"
        /\ history # <<>>
        /\ history[Len(history)] = UserMsg(t, <<"a">>)
        /\ input = <<>>
        /\ chatStatus = "submitted"

\* C28: when the chat request of a send returns an empty text, the transcript
\* gets no assistant message, no TTS request is issued and no audio touched,
\* speaking is left as it was, the status is 'ready' and the send is over.
C28_EmptyReply ==
    [][\A t \in DOMAIN tasks :
         ChatSettle(t, TRUE, <<>>) =>
             /\ history' = history
             /\ audio' = audio /\ ttsPlaying' = ttsPlaying
             /\ speaking' = speaking
             /\ chatStatus' = "ready"
             /\ tasks'[t].pc = "done"
             /\ \A u \in DOMAIN tasks : tasks'[u].pc = "tts" => tasks[u].pc = "tts"]_vars

\* A send is over with the status back to 'ready', its user message the last of
\* the transcript and no assistant message of it ever appended.
C28_Witness ==
    \E t \in DOMAIN tasks :
        /\ tasks[t].kind = "send" /\ tasks[t].pc = "done"
        /\ chatStatus = "ready" /\ ~speaking
        /\ history # <<>>
        /\ history[Len(history)].id = UserMsg(t, <<>>).id
        /\ \A i \in DOMAIN appendLog : appendLog[i] # AssistantId(t)
        /\ \A u \in DOMAIN tasks : tasks[u].kind = "send" => u = t

\* The step in which the greeting flow t passes its join with an empty greeting
\* and returns.
EmptyGreetingJoin(t) ==
    /\ tasks[t].kind = "greet"
    /\ tasks[t].pc \in {"json", "animwait"}
    /\ tasks'[t].pc = "done"

\* C29: when a greeting flow passes its join with an empty greeting, the
\* connected number stays as it is, the ringback is off, the transcript gets no
\* placeholder, speaking is left as it was, and no TTS request is issued and no
\* audio touched.
C29_EmptyGreeting ==
    [][\A t \in DOMAIN tasks :
         EmptyGreetingJoin(t) =>
             /\ connectedNumber' = connectedNumber
             /\ ~RingActive'
             /\ history' = history
             /\ speaking' = speaking
             /\ audio' = audio /\ ttsPlaying' = ttsPlaying
             /\ \A u \in DOMAIN tasks : tasks'[u].pc = "tts" => tasks[u].pc = "tts"]_vars

\* The only flow so far, a greeting that waited for the dial animation, is over
\* without a failure of its request: the call is connected and silent with an
\* empty transcript.
C29_Witness ==
    /\ Len(tasks) = 1
    /\ tasks[1].pc = "done" /\ ~tasks[1].aborted
    /\ tasks[1].wait /\ tasks[1].animDone
    /\ connectedNumber # <<>> /\ greetingAbortRef = 1
    /\ ~RingActive
    /\ history = <<>> /\ appendLog = <<>> /\ ~speaking /\ ~audio.playing

\* The step in which the playback of flow t fails: its TTS request did not
\* succeed, or its play() was rejected.
PlaybackFails(t) ==
    /\ tasks[t].pc \in {"tts", "play", "playRejected"}
    /\ tasks'[t].pc = "done"
    /\ ~AudioStartOf(t)

\* C30: when the playback of a flow fails, the transcript is left as it is,
\* speaking is reset (and the status is 'ready' after a send), and the
\* connected number, the dial buffer and the dial pad are as they were, so that
\* dial, send and hang-up are available as before; the assistant message of a
\* flow that is over without an audio start stays pending with the placeholder
\* text.
C30_PlaybackFailure ==
    [][/\ \A t \in DOMAIN tasks :
            PlaybackFails(t) =>
                /\ history' = history
                /\ ~speaking'
                /\ chatStatus' = IF tasks[t].kind = "send" THEN "ready" ELSE chatStatus
                /\ UNCHANGED <<connectedNumber, dialed, dialModalOpen, input>>
       /\ \A t \in DOMAIN tasks' :
            (tasks'[t].pc = "done" /\ tasks'[t].starts = 0) =>
                \A i \in DOMAIN history' :
                    history'[i].id = AssistantId(t) => history'[i] = PlaceholderMsg(t)]_vars

\* A send is over after a playback failure: its placeholder is still pending
\* in the transcript of the connected call, speaking is reset and the status
\* is 'ready'.
C30_Witness ==
    \E t \in DOMAIN tasks :
        /\ tasks[t].kind = "send" /\ tasks[t].pc = "done" /\ tasks[t].starts = 0
        /\ \E i \in DOMAIN history : history[i] = PlaceholderMsg(t)
        /\ connectedNumber # <<>>
        /\ ~speaking /\ chatStatus = "ready"

\* C31: the dial buffer holds only digits and at most 11 of them; a step that
\* presses a digit key leaves the buffer either as it was or with that digit
\* appended, and appended only if it held fewer than 11; a step that presses
\* '*' or '#' appends nothing.
C31_DialBuffer ==
    /\ Len(dialed) <= MAX_DIGITS /\ \A i \in DOMAIN dialed : IsDigit(dialed[i])
    /\ [][/\ Len(dialed') <= MAX_DIGITS
          /\ \A i \in DOMAIN dialed' : IsDigit(dialed'[i])
          /\ keyed'.key \in Digits =>
                \/ dialed' = dialed
                \/ Len(dialed) < MAX_DIGITS /\ dialed' = Append(dialed, keyed'.key)
          /\ keyed'.key = "*" => dialed' \in {dialed, <<>>}
          /\ keyed'.key = "#" => dialed' = dialed]_vars

\* The dial buffer is full, and the last step pressed a digit key that was not
\* appended.
C31_Witness ==
    /\ Len(dialed) = MAX_DIGITS
    /\ keyed.key \in Digits /\ keyed.tone
    /\ dialed[MAX_DIGITS] # keyed.key

\* C32: the oscillators and the gain node exist exactly when the pattern
\* timer exists, one of each at most; a step that leaves the ringback off
\* leaves no timer, oscillator or gain node, and keeps the audio context,
\* suspended, if there was one (also when nothing was ringing); and a dial that
\* matches a route leaves a ringback running, whatever was stopped before.
C32_RingTeardown ==
    [][/\ ring'.timerRef <=> ring'.oscRef
       /\ ring'.timerRef <=> ring'.gainRef
       /\ ring'.timers = (IF ring'.timerRef THEN 1 ELSE 0)
       /\ ring'.oscs = ring'.timers
       /\ (ring' # ring /\ ~RingActive') =>
              /\ ~ring'.timerRef /\ ~ring'.oscRef /\ ~ring'.gainRef /\ ~ring'.on
              /\ ring'.ctx = (IF ring.ctx = "none" THEN "none" ELSE "suspended")
       /\ SuccessfulDial =>
              /\ RingActive'
              /\ ring'.timerRef /\ ring'.ctx = "running"]_vars

\* A ringback started afresh: the greeting of an earlier dial passed its join,
\* which stopped the ringback, and a later dial is ringing.
C32_Witness ==
    /\ RingActive /\ ring.calls = 1 /\ ring.ctx = "running"
    /\ \E t \in DOMAIN tasks :
          /\ tasks[t].kind = "greet"
          /\ tasks[t].pc \in {"tts", "play", "playRejected"}
          /\ t # greetingAbortRef

\* C33: a play of the dial animation starts at frame 1 with playing set and
\* its counter at 1; a tick below the last frame advances the counter by one
\* and shows that frame; the tick after the last frame clears the timer,
\* resets playing, leaves the frame at 120 and runs onDone (the dial pad
\* opens); a step that removes the timer otherwise (a connect or a hangup)
\* does not run onDone, and the dial pad never opens outside a call but by
\* that last tick.
C33_PlayOnce ==
    [][/\ \A tm \in dialTimers' \ dialTimers :
            /\ dialAnimPlaying' /\ dialAnimFrame' = tm.i
            /\ \/ tm.i = 1 /\ dialTimers = {}
               \/ \E old \in dialTimers :
                     /\ DialAnimTick(old)
                     /\ tm.i = old.i + 1 /\ old.i < frameCount.dial
       /\ \A tm \in dialTimers :
            IF DialAnimTick(tm) /\ tm.i = frameCount.dial
            THEN /\ dialTimers' = {} /\ dialAnimTimerRef' = {}
                 /\ ~dialAnimPlaying'
                 /\ dialAnimFrame' = frameCount.dial
                 /\ dialModalOpen' = (tm.onDone = "openModal" \/ dialModalOpen)
            ELSE dialTimers' = {} => (dialModalOpen' => dialModalOpen)
       /\ (dialModalOpen' /\ ~dialModalOpen /\ connectedNumber = <<>>) =>
              \E tm \in dialTimers : tm.i = frameCount.dial /\ DialAnimTick(tm)]_vars

\* A play has run to its end: the dial pad is open outside a call with the
\* frame left at 120, nothing playing and no timer.
C33_Witness ==
    /\ frameCount.dial = DIAL_ANIM_LAST_FRAME
    /\ dialModalOpen /\ connectedNumber = <<>>
    /\ dialAnimFrame = DIAL_ANIM_LAST_FRAME
    /\ ~dialAnimPlaying /\ dialTimers = {} /\ dialAnimTimerRef = {}

\* C34: a close of the address book leaves one timer only, the reverse play,
\* which starts at the frame shown when the close was asked for (the timer of
\* an opening in progress is gone, so its onDone cannot run); the phase
\* becomes 'open' only by the last tick of an opening that reached the last
\* frame; while the phase is 'closing' the reverse play is the one live timer
\* and shows its counter; and the phase leaves 'closing' only with the frame
\* at 1, the address book closed, the phase 'opening' and no timer, which a
\* close always comes to as long as its timer keeps firing.
C34_InterruptAndReverse ==
    /\ [][/\ (addressBookOpen /\ CloseAddressBookBody) =>
               \E tm \in abTimers' :
                   /\ abTimers' = {tm} /\ abTimerRef' = {tm}
                   /\ tm.onDone = "close" /\ tm.to = 1
                   /\ tm.i = abFrame /\ abFrame' = abFrame
                   /\ abFrame > 1 => tm.dir = -1
                   /\ abPlaying'
          /\ (abPhase' = "open" /\ abPhase # "open") =>
               /\ abPhase = "opening"
               /\ abFrame = frameCount.ab
               /\ \E tm \in abTimers : tm.onDone = "open" /\ tm.i = frameCount.ab
          /\ abPhase' = "closing" =>
               \E tm \in abTimers' :
                   abTimers' = {tm} /\ tm.onDone = "close" /\ tm.i = abFrame'
          /\ (abPhase = "closing" /\ abPhase' # "closing") =>
               /\ abFrame' = 1 /\ ~addressBookOpen' /\ abPhase' = "opening"
               /\ abTimers' = {} /\ abTimerRef' = {} /\ ~abPlaying']_vars
    /\ (abPhase = "closing") ~>
           (/\ ~addressBookOpen /\ abFrame = 1 /\ abPhase = "opening"
            /\ abTimers = {} /\ abTimerRef = {})

\* An opening was interrupted half way: the reverse play runs from a frame
\* that is neither the first nor the last.
C34_Witness ==
    /\ abCancelled /\ abPhase = "closing" /\ addressBookOpen
    /\ abFrame = 96
    /\ abTimers = {[i |-> 96, dir |-> -1, to |-> 1, onDone |-> "close"]}

\* C35: a pending message is an assistant message with the placeholder text,
\* and a user message is never pending; a message that stays in the
\* transcript keeps its role, and its text or its flag change only together,
\* from the pending placeholder to a final text that is not pending, in a
\* step that leaves the order of the transcript as it is.
C35_PendingDiscipline ==
    [][/\ \A j \in DOMAIN history' :
            /\ history'[j].pending =>
                  (history'[j].role = "assistant" /\ history'[j].text = Placeholder)
            /\ history'[j].role = "user" => ~history'[j].pending
       /\ \A i \in DOMAIN history, j \in DOMAIN history' :
            (history[i].id = history'[j].id /\ history[i] # history'[j]) =>
                /\ history'[j].role = history[i].role
                /\ history[i].pending /\ ~history'[j].pending
                /\ history[i].text = Placeholder /\ history'[j].text # Placeholder
                /\ i = j
                /\ [k \in DOMAIN history' |-> history'[k].id] = HistoryIds]_vars

\* The transcript holds a revealed greeting, a user message and the pending
\* placeholder of the reply.
C35_Witness ==
    /\ Len(history) = 3
    /\ history[1].role = "assistant" /\ ~history[1].pending
    /\ history[1].text # Placeholder
    /\ history[2].role = "user"
    /\ history[3] = PlaceholderMsg(history[3].id.n)

\* C36: a step that sets the connected number sets it to the digits of the
\* dial buffer, and these are the number of a route configured at that
\* moment, whichever path sets it.
C36_ConnectedIsResolved ==
    [][(connectedNumber' # connectedNumber /\ connectedNumber' # <<>>) =>
          /\ connectedNumber' \in routes'
          /\ connectedNumber' = Normalize(dialed')]_vars

\* The mobile auto-connect has set the connected number: no dial was made, and
\* the number is a route.
C36_Witness ==
    /\ isMobile
    /\ connectedNumber # <<>> /\ connectedNumber \in routes
    /\ tasks = <<>>

\* C37: a step that takes the connected number from none to a number starts
\* the ringback and issues exactly one greeting request, for that number.
C37_ConnectionRingsAndGreets ==
    [][(connectedNumber = <<>> /\ connectedNumber' # <<>>) =>
          /\ RingActive'
          /\ SuccessfulDial
          /\ tasks'[Len(tasks')].pc = "fetch"
          /\ tasks'[Len(tasks')].number = connectedNumber'
          /\ greetingAbortRef' = Len(tasks')]_vars

\* C38: while a sendText call is between issuing its chat request and
\* finishing, the chat status is 'submitted'; so with the status 'ready' no
\* send is in progress.
C38_SubmittedWhileSending ==
    (\E t \in DOMAIN tasks : SendInFlight(t)) => chatStatus = "submitted"

\* C39: while a call is connected and the dial animation is not playing, the
\* frame displayed is the last frame; a dial that matches a route leaves no
\* dial animation timer, playing reset and the last frame held; and during a
\* call the frame displayed goes back to 1 by a hangup only.
C39_HeldFrame ==
    [][/\ (connectedNumber' # <<>> /\ ~dialAnimPlaying') =>
            DialAnimEffectiveFrame' = frameCount.dial
       /\ SuccessfulDial =>
            /\ dialTimers' = {} /\ dialAnimTimerRef' = {}
            /\ ~dialAnimPlaying'
            /\ dialAnimFrame' = frameCount.dial
            /\ DialAnimEffectiveFrame' = frameCount.dial
       /\ (connectedNumber # <<>> /\ DialAnimEffectiveFrame # 1
             /\ DialAnimEffectiveFrame' = 1) => hangupRun' >= 1]_vars

\* A call is connected with no dial animation playing and the animation's own
\* frame still at 1: the frame displayed is the last one.
C39_Witness ==
    /\ connectedNumber # <<>> /\ ~dialAnimPlaying
    /\ dialAnimFrame = 1
    /\ DialAnimEffectiveFrame = frameCount.dial
    /\ frameCount.dial > 1
=============================================================================
